---- MODULE Spec2Model ----
(***************************************************************************)
(* A model of the BlackBerry 10 side of cordova-plugin-globalization:      *)
(*   src/src/blackberry10/globalizer.js  the locale formatting helper      *)
(*   src/src/blackberry10/index.js       the bridge entry points           *)
(*                                                                         *)
(* JavaScript strings are sequences of one-character strings, so that      *)
(* split, join, replace, trim and the case conversions are computed.       *)
(* JavaScript values are tagged records (Undef, Null, Bool, Str, Num, Obj).*)
(* A computation that may raise is a record [threw, ...].                  *)
(***************************************************************************)
EXTENDS Integers, Sequences, FiniteSets, TLC

VARIABLES
    navigatorLanguage,  \* navigator.language, owned by the platform
    momentLang,         \* the date library's current locale (moment.lang)
    call,               \* the last call made and everything it reported
    firstDays           \* every value getFirstDayOfWeek has reported so far

vars == <<navigatorLanguage, momentLang, call, firstDays>>

----------------------------------------------------------------------------
(* Bounds of the model.                                                    *)

\* The most blanks put before or after a selector or name option.
MaxPad == 1

----------------------------------------------------------------------------
(* JavaScript values.                                                      *)

Undef == [t |-> "undefined"]
Null == [t |-> "null"]
Bool(b) == [t |-> "boolean", b |-> b]
Str(s) == [t |-> "string", s |-> s]
Num(n) == [t |-> "number", n |-> n]
Obj(o) == [t |-> "object", o |-> o]
True == Bool(TRUE)
False == Bool(FALSE)

\* ToBoolean: what `x ? a : b` and `x || y` test.
Truthy(v) ==
    CASE v.t = "undefined" -> FALSE
      [] v.t = "null" -> FALSE
      [] v.t = "boolean" -> v.b
      [] v.t = "string" -> Len(v.s) > 0
      [] v.t = "number" -> v.n # 0
      [] OTHER -> TRUE

\* x || y
Or(x, y) == IF Truthy(x) THEN x ELSE y

Return(v) == [threw |-> FALSE, value |-> v]
Throw(e) == [threw |-> TRUE, error |-> e]

----------------------------------------------------------------------------
(* Strings.                                                                *)

LowerLetters ==
    <<"a","b","c","d","e","f","g","h","i","j","k","l","m",
      "n","o","p","q","r","s","t","u","v","w","x","y","z">>
UpperLetters ==
    <<"A","B","C","D","E","F","G","H","I","J","K","L","M",
      "N","O","P","Q","R","S","T","U","V","W","X","Y","Z">>

UpperChar(c) ==
    IF \E i \in DOMAIN LowerLetters : LowerLetters[i] = c
    THEN UpperLetters[CHOOSE i \in DOMAIN LowerLetters : LowerLetters[i] = c]
    ELSE c
LowerChar(c) ==
    IF \E i \in DOMAIN UpperLetters : UpperLetters[i] = c
    THEN LowerLetters[CHOOSE i \in DOMAIN UpperLetters : UpperLetters[i] = c]
    ELSE c

\* String.prototype.toUpperCase / toLowerCase
ToUpperCase(s) == [i \in DOMAIN s |-> UpperChar(s[i])]
ToLowerCase(s) == [i \in DOMAIN s |-> LowerChar(s[i])]

IsSpace(c) == c = " "

RECURSIVE TrimLeft(_)
TrimLeft(s) == IF s # <<>> /\ IsSpace(Head(s)) THEN TrimLeft(Tail(s)) ELSE s
RECURSIVE TrimRight(_)
TrimRight(s) ==
    IF s # <<>> /\ IsSpace(s[Len(s)]) THEN TrimRight(SubSeq(s, 1, Len(s) - 1)) ELSE s
\* String.prototype.trim
Trim(s) == TrimRight(TrimLeft(s))

\* s has t at position i
HasAt(s, t, i) == i + Len(t) - 1 <= Len(s) /\ SubSeq(s, i, i + Len(t) - 1) = t
\* String.prototype.indexOf(t) # -1
Contains(s, t) == \E i \in 1..(Len(s) + 1) : HasAt(s, t, i)

\* String.prototype.split(c) for a one-character separator
RECURSIVE SplitFrom(_, _, _)
SplitFrom(s, c, cur) ==
    IF s = <<>> THEN <<cur>>
    ELSE IF Head(s) = c THEN <<cur>> \o SplitFrom(Tail(s), c, <<>>)
    ELSE SplitFrom(Tail(s), c, Append(cur, Head(s)))
Split(s, c) == SplitFrom(s, c, <<>>)

\* Array.prototype.join(sep)
RECURSIVE Join(_, _)
Join(parts, sep) ==
    IF parts = <<>> THEN <<>>
    ELSE IF Len(parts) = 1 THEN parts[1]
    ELSE parts[1] \o sep \o Join(Tail(parts), sep)

\* String.prototype.replace(/pat/g, rep) for a literal, non-empty pat:
\* the matches are taken left to right and do not overlap.
RECURSIVE ReplaceAll(_, _, _)
ReplaceAll(s, pat, rep) ==
    IF s = <<>> THEN <<>>
    ELSE IF HasAt(s, pat, 1)
         THEN rep \o ReplaceAll(SubSeq(s, Len(pat) + 1, Len(s)), pat, rep)
         ELSE <<Head(s)>> \o ReplaceAll(Tail(s), pat, rep)

----------------------------------------------------------------------------
(* The date library's locale data (moment.langData()).                     *)

Langs == {"en", "hu", "ar"}

LT == <<"L","T">>

\* lang._longDateFormat, with the lower-case keys the library derives.
LongDateFormats ==
    [ en |->
        [ LT   |-> <<"h",":","m","m"," ","A">>,
          L    |-> <<"M","M","/","D","D","/","Y","Y","Y","Y">>,
          lll  |-> <<"M","M","M"," ","D"," ","Y","Y","Y","Y"," ","L","T">>,
          LLL  |-> <<"M","M","M","M"," ","D"," ","Y","Y","Y","Y"," ","L","T">>,
          LLLL |-> <<"d","d","d","d",","," ","M","M","M","M"," ","D"," ",
                     "Y","Y","Y","Y"," ","L","T">> ],
      hu |->
        [ LT   |-> <<"H",":","m","m">>,
          L    |-> <<"Y","Y","Y","Y",".","M","M",".","D","D",".">>,
          lll  |-> <<"Y","Y","Y","Y","."," ","M","M","M"," ","D",".",","," ","L","T">>,
          LLL  |-> <<"Y","Y","Y","Y","."," ","M","M","M","M"," ","D",".",","," ","L","T">>,
          LLLL |-> <<"Y","Y","Y","Y","."," ","M","M","M","M"," ","D",".",","," ",
                     "d","d","d","d"," ","L","T">> ],
      ar |->
        [ LT   |-> <<"H","H",":","m","m">>,
          L    |-> <<"D","D","/","M","M","/","Y","Y","Y","Y">>,
          lll  |-> <<"D"," ","M","M","M"," ","Y","Y","Y","Y"," ","L","T">>,
          LLL  |-> <<"D"," ","M","M","M","M"," ","Y","Y","Y","Y"," ","L","T">>,
          LLLL |-> <<"d","d","d","d"," ","D"," ","M","M","M","M"," ",
                     "Y","Y","Y","Y"," ","L","T">> ] ]

\* lang._week.dow: the locale's first day of the week, 0 = Sunday.
WeekDow == [en |-> 0, hu |-> 1, ar |-> 6]

\* The key of a token: the record field that holds its expansion.
TokenKey(token) ==
    CASE token = <<"L","T">> -> "LT"
      [] token = <<"L">> -> "L"
      [] token = <<"l","l","l">> -> "lll"
      [] token = <<"L","L","L">> -> "LLL"
      [] token = <<"L","L","L","L">> -> "LLLL"
      [] OTHER -> "none"

\* langData.longDateFormat(token)
longDateFormat(lang, token) == LongDateFormats[lang][TokenKey(token)]

\* lang._months, lang._monthsShort, lang._weekdays, lang._weekdaysShort:
\* entry i of a table is the locale's i-th name, kept abstract.
NameTableLen ==
    [_months |-> 12, _monthsShort |-> 12, _weekdays |-> 7, _weekdaysShort |-> 7]
NameTable(lang, key) == [i \in 1..NameTableLen[key] |-> <<lang, key, i>>]

\* moment(dateString): the fields the library's parser reads from a string
\* (months count from 0). An absent string reads as the current moment.
DateString1 ==
    <<"2","0","1","1","-","0","4","-","1","1","T","1","0",":","3","0",":","0","0">>
DateString2 ==
    <<"1","9","9","9","-","1","2","-","3","1","T","2","3",":","5","9",":","5","9">>
MomentParse(dateString) ==
    IF dateString = Str(DateString1)
    THEN [year |-> 2011, month |-> 3, day |-> 11,
          hour |-> 10, minute |-> 30, second |-> 0, millisecond |-> 0]
    ELSE IF dateString = Str(DateString2)
    THEN [year |-> 1999, month |-> 11, day |-> 31,
          hour |-> 23, minute |-> 59, second |-> 59, millisecond |-> 0]
    ELSE [year |-> 2026, month |-> 10, day |-> 2,
          hour |-> 8, minute |-> 15, second |-> 7, millisecond |-> 250]

\* moment(date).isDST() in a zone that observes daylight saving time:
\* of the two instants of the model, the second lies in summer.
MomentIsDST(date) == date.valid /\ date.time = 2

\* moment(date).format(pattern): the library's formatting, kept abstract.
MomentFormat(date, pattern) == [date |-> date, pattern |-> pattern]

\* leftZeroFill(n, 2)
DigitChars == <<"0","1","2","3","4","5","6","7","8","9">>
TwoDigits(n) == <<DigitChars[((n \div 10) % 10) + 1], DigitChars[(n % 10) + 1]>>
\* moment().format("ZZ"): the signed offset, +HHMM or -HHMM
MomentFormatZZ(zone) ==
    LET a == IF -zone < 0 THEN zone ELSE -zone
        b == IF -zone < 0 THEN "-" ELSE "+"
    IN <<b>> \o TwoDigits(a \div 60) \o TwoDigits(a % 60)

\* moment().weekday(0).isoWeekday(): the ISO weekday (1 = Monday .. 7 = Sunday)
\* of the first day of the locale's week.
MomentFirstIsoWeekday(lang) == IF WeekDow[lang] = 0 THEN 7 ELSE WeekDow[lang]

----------------------------------------------------------------------------
(* The platform: what new Date().toString() and moment().zone() read.      *)

NowWithName ==
    [str |-> <<"G","M","T","-","0","5","0","0"," ","(","E","S","T",")">>, zone |-> 300]
NowWithoutName ==
    [str |-> <<"G","M","T","+","0","1","0","0">>, zone |-> -60]
Nows == {NowWithName, NowWithoutName}

\* new Date(value)
NewDate(value) ==
    IF value.t = "number" THEN [valid |-> TRUE, time |-> value.n]
    ELSE [valid |-> FALSE, time |-> 0]

----------------------------------------------------------------------------
(* globalizer.js                                                           *)

S_SHORT == <<"S","H","O","R","T">>
S_MEDIUM == <<"M","E","D","I","U","M">>
S_LONG == <<"L","O","N","G">>
S_FULL == <<"F","U","L","L">>

\* MOMENT_DATE_FORMAT with the SHORT skeleton standing in for any other key.
MOMENT_DATE_FORMAT_OrShort(formatLength) ==
    CASE formatLength = S_MEDIUM -> Str(<<"l","l","l">>)
      [] formatLength = S_LONG -> Str(<<"L","L","L">>)
      [] formatLength = S_FULL -> Str(<<"L","L","L","L">>)
      [] OTHER -> Str(<<"L"," ","L","T">>)

\* MOMENT_DATE_FORMAT.DATE_TIME[formatLength]; Undef for any other key
MOMENT_DATE_FORMAT(formatLength) ==
    CASE formatLength = S_SHORT -> Str(<<"L"," ","L","T">>)
      [] formatLength = S_MEDIUM -> Str(<<"l","l","l">>)
      [] formatLength = S_LONG -> Str(<<"L","L","L">>)
      [] formatLength = S_FULL -> Str(<<"L","L","L","L">>)
      [] OTHER -> Undef

\* init(): moment.lang(navigator.language)
init(language) == language

\* expr.exec(str) for expr = /\((.+)\)$/: Null, or <<match, group 1>> of the
\* leftmost "(" that is followed by at least one character and a final ")".
ExecTimezoneExpr(str) ==
    LET starts == {i \in 1..Len(str) :
                       str[i] = "(" /\ i + 1 < Len(str) /\ str[Len(str)] = ")"}
    IN IF starts = {} THEN Null
       ELSE LET i == CHOOSE k \in starts : \A j \in starts : k <= j
            IN Obj(<<SubSeq(str, i, Len(str)), SubSeq(str, i + 1, Len(str) - 1)>>)

\* _getCurrentTimezoneName(): matches.length is read whether or not the
\* expression matched.
_getCurrentTimezoneName(now) ==
    LET matches == ExecTimezoneExpr(now.str)
    IN IF matches.t = "null" THEN Throw("TypeError")
       ELSE Return(IF Len(matches.o) > 1 THEN matches.o[2]
                   ELSE MomentFormatZZ(now.zone))

\* options.formatLength ? options.formatLength.toUpperCase() : "SHORT"
FormatLengthKey(options) ==
    IF Truthy(options.formatLength) THEN ToUpperCase(options.formatLength.s)
    ELSE S_SHORT

\* PatternOptionsGiven with the test stringToFormattedDate makes (truthiness).
PatternOptionsTruthy(options) == Truthy(Or(options.date, options.time))

\* (options.date !== undefined) || (options.time !== undefined)
PatternOptionsGiven(options) == options.date # Undef \/ options.time # Undef
\* displayDate and displayTime of getDatePattern
PatternDisplayDate(options) ==
    IF PatternOptionsGiven(options) THEN options.date ELSE True
PatternDisplayTime(options) ==
    IF PatternOptionsGiven(options) THEN options.time ELSE True

\* ExpandSkeleton without the replacement of the "LT" left in the text.
ExpandSkeletonNoReplace(skeleton, displayTime) ==
    LET tokens == Split(skeleton, " ")
    IN Join([i \in DOMAIN tokens |-> longDateFormat(momentLang, tokens[i])], <<" ">>)

\* The displayDate branch: split the skeleton, expand each component, join,
\* then replace every "LT" left in the text.
ExpandSkeleton(skeleton, displayTime) ==
    LET tokens == Split(skeleton, " ")
        formatComponents ==
            [i \in DOMAIN tokens |-> longDateFormat(momentLang, tokens[i])]
    IN ReplaceAll(Join(formatComponents, <<" ">>), LT,
                  IF Truthy(displayTime) THEN longDateFormat(momentLang, LT) ELSE <<>>)

\* FormatPattern with the skeleton branch taken when either part is asked for.
FormatPatternEitherPart(options) ==
    LET skeleton == MOMENT_DATE_FORMAT(FormatLengthKey(options))
    IN IF Truthy(PatternDisplayDate(options)) \/ Truthy(PatternDisplayTime(options))
       THEN IF skeleton.t = "undefined" THEN Throw("TypeError")
            ELSE Return(ExpandSkeleton(skeleton.s, PatternDisplayTime(options)))
       ELSE Return(<<>>)

\* formatPattern of getDatePattern; a TypeError when the skeleton of the
\* format length is undefined and split is called on it.
FormatPattern(options) ==
    LET skeleton == MOMENT_DATE_FORMAT(FormatLengthKey(options))
    IN IF Truthy(PatternDisplayDate(options))
       THEN IF skeleton.t = "undefined" THEN Throw("TypeError")
            ELSE Return(ExpandSkeleton(skeleton.s, PatternDisplayTime(options)))
       ELSE IF Truthy(PatternDisplayTime(options))
            THEN Return(longDateFormat(momentLang, LT))
            ELSE Return(<<>>)

\* getDatePattern(options)
getDatePattern(options, now) ==
    LET formatPattern == FormatPattern(options)
        timezone == _getCurrentTimezoneName(now)
    IN IF formatPattern.threw THEN formatPattern
       ELSE IF timezone.threw THEN timezone
       ELSE Return([pattern |-> Trim(formatPattern.value),
                    timezone |-> timezone.value,
                    utc_offset |-> now.zone * 60,
                    dst_offset |-> 0])

S_days == <<"d","a","y","s">>
S_months == <<"m","o","n","t","h","s">>
S_narrow == <<"n","a","r","r","o","w">>
S_wide == <<"w","i","d","e">>

\* NameItem without toLowerCase().
NameItemAsGiven(options) ==
    IF Truthy(options.item) THEN options.item.s ELSE S_months

\* options.item and options.type after their defaults and toLowerCase()
NameItem(options) ==
    IF Truthy(options.item) THEN ToLowerCase(options.item.s) ELSE S_months
NameType(options) ==
    IF Truthy(options.type) THEN ToLowerCase(options.type.s) ELSE S_wide

\* itemStr + typeStr
NameKey(item, type) ==
    CASE item = S_days /\ type = S_narrow -> "_weekdaysShort"
      [] item = S_days /\ type # S_narrow -> "_weekdays"
      [] item # S_days /\ type = S_narrow -> "_monthsShort"
      [] OTHER -> "_months"

\* getDateNames(options)
getDateNames(options) ==
    Return(NameTable(momentLang, NameKey(NameItem(options), NameType(options))))

\* isDayLightSavingsTime(date)
isDayLightSavingsTime(date) == Return(MomentIsDST(date))

\* formatDate(dateObj, options)
formatDate(dateObj, options, now) ==
    LET pattern == getDatePattern(options, now)
    IN IF pattern.threw THEN pattern
       ELSE Return(MomentFormat(dateObj, pattern.value.pattern))

\* getFirstDayOfWeek()
getFirstDayOfWeek == MomentFirstIsoWeekday(momentLang)

DateFieldNames == {"year", "month", "day"}
TimeFieldNames == {"hour", "minute", "second", "millisecond"}

\* ParseOptionsGiven with the test getDatePattern makes (!== undefined).
ParseOptionsDefined(options) == options.date # Undef \/ options.time # Undef

\* options.date || options.time
ParseOptionsGiven(options) == Truthy(Or(options.date, options.time))
\* displayDate and displayTime of stringToFormattedDate
ParseDisplayDate(options) ==
    IF ParseOptionsGiven(options) THEN options.date ELSE True
ParseDisplayTime(options) ==
    IF ParseOptionsGiven(options) THEN options.time ELSE True

\* ParseFields with the time fields put in whatever was asked for.
ParseFieldsTimeAlways(displayDate, displayTime) ==
    (IF Truthy(displayDate) THEN DateFieldNames ELSE {}) \cup TimeFieldNames

\* The fields stringToFormattedDate puts in returnObj
ParseFields(displayDate, displayTime) ==
    (IF Truthy(displayDate) THEN DateFieldNames ELSE {})
    \cup (IF Truthy(displayTime) THEN TimeFieldNames ELSE {})

\* stringToFormattedDate(dateString, options)
stringToFormattedDate(dateString, options) ==
    LET dateObj == MomentParse(dateString)
        fields == ParseFields(ParseDisplayDate(options), ParseDisplayTime(options))
    IN Return([f \in fields |-> dateObj[f]])

----------------------------------------------------------------------------
(* index.js: the bridge entry points.                                      *)

\* What a call reports: result.ok(value) is a "success", result.error(value)
\* and failureCB(value) are a "failure".
Success(value) == [path |-> "success", value |-> value]
Failure(value) == [path |-> "failure", value |-> value]

\* value.name: a TypeError on undefined and null, Undef on any other value
\* that holds no such property.
CanRead(value) == value.t \notin {"undefined", "null"}
Get(value, name) ==
    IF value.t = "object" /\ name \in DOMAIN value.o THEN value.o[name] ELSE Undef

\* JSON.parse(decodeURIComponent(arg)): an argument is Undef or a text that is
\* not URI-encoded ("badUri"), not JSON ("badJson"), or encodes the value json.
\* decodeURIComponent(undefined) is "undefined", which is not JSON.
DecodeParse(arg) ==
    IF arg.t = "undefined" THEN Throw("SyntaxError")
    ELSE IF arg.text = "badUri" THEN Throw("URIError")
    ELSE IF arg.text = "badJson" THEN Throw("SyntaxError")
    ELSE Return(arg.json)

\* !args || args.length === 0
NoArgs(args) == ~Truthy(args) \/ Len(args.o) = 0

\* args[0]: a TypeError on absent args, Undef past the end
FirstArg(args) ==
    IF ~CanRead(args) THEN Throw("TypeError")
    ELSE Return(IF Len(args.o) > 0 THEN args.o[1] ELSE Undef)

\* if (!args || args.length === 0) { result.error(missing) }
\* else { try { params = JSON.parse(...) } catch (e) { result.error(malformed) } }
\* gives what was reported and params (Undef when it was never assigned).
CheckedParams(args, missing, malformed) ==
    IF NoArgs(args) THEN [events |-> <<Failure(missing)>>, params |-> Undef]
    ELSE LET parsed == DecodeParse(args.o[1])
         IN IF parsed.threw
            THEN [events |-> <<Failure(malformed)>>, params |-> Undef]
            ELSE [events |-> <<>>, params |-> parsed.value]

\* try { params = JSON.parse(decodeURIComponent(args[0])) }
\* catch (e) { result.error(malformed) }
UncheckedParams(args, malformed) ==
    LET arg == FirstArg(args)
        parsed == IF arg.threw THEN arg ELSE DecodeParse(arg.value)
    IN IF parsed.threw
       THEN [events |-> <<Failure(malformed)>>, params |-> Undef]
       ELSE [events |-> <<>>, params |-> parsed.value]

S_date == <<"d","a","t","e">>
S_time == <<"t","i","m","e">>
S_date_and_time == <<"d","a","t","e"," ","a","n","d"," ","t","i","m","e">>

\* { formatLength: formatLength,
\*   date: selector === "date" || selector === "date and time" || undefined,
\*   time: selector === "time" || selector === "date and time" || undefined }
SelectorOptions(formatLength, selector) ==
    [formatLength |-> formatLength,
     date |-> IF selector = Str(S_date) \/ selector = Str(S_date_and_time)
              THEN True ELSE Undef,
     time |-> IF selector = Str(S_time) \/ selector = Str(S_date_and_time)
              THEN True ELSE Undef]

\* options.selector ? options.selector.toLowerCase().trim() : ""
NormalSelector(selector) ==
    IF Truthy(selector) THEN Str(Trim(ToLowerCase(selector.s))) ELSE Str(<<>>)

\* The outcome of an entry point: what it reported, whether an exception left
\* it, and the options it handed to the helper (Undef when it never did).
Outcome(events, threw, options) ==
    [events |-> events, threw |-> threw, options |-> options]

MissingDate == "Cannot format date string: Missing date argument"
MissingString == "Cannot parse date string: Missing string argument"
MalformedFormat == "Cannot format date string: Malformed arguments"
MalformedParse == "Cannot parse date string: Malformed arguments"

\* getPreferredLanguage and getLocaleName
getPreferredLanguage(args) ==
    Outcome(<<Success([value |-> navigatorLanguage])>>, FALSE, Undef)
getLocaleName(args) ==
    Outcome(<<Success([value |-> navigatorLanguage])>>, FALSE, Undef)

\* dateToString. It stores the defaulted options back into params.options and
\* reads them from there: on a params that is no object the store is lost and
\* the read gives Undef.
dateToString(args, now) ==
    LET p == CheckedParams(args, MissingDate, MalformedFormat)
        params == p.params
        paramsOptions == IF params.t = "object"
                         THEN Or(Get(params, "options"), Obj(<<>>)) ELSE Undef
        selector == Get(paramsOptions, "selector")
        dateObj == NewDate(Get(params, "date"))
        options == SelectorOptions(Get(paramsOptions, "formatLength"), selector)
        formatted == formatDate(dateObj, options, now)
    IN IF ~CanRead(params) \/ ~CanRead(paramsOptions)
       THEN Outcome(p.events, TRUE, Undef)
       ELSE IF formatted.threw THEN Outcome(p.events, TRUE, Obj(options))
       ELSE Outcome(p.events \o <<Success([value |-> formatted.value])>>,
                    FALSE, Obj(options))

\* stringToDate
stringToDate(args) ==
    LET p == CheckedParams(args, MissingString, MalformedParse)
        params == p.params
        paramsOptions == Or(Get(params, "options"), Obj(<<>>))
        selector == NormalSelector(Get(paramsOptions, "selector"))
        options == SelectorOptions(Get(paramsOptions, "formatLength"), selector)
        returnObj == stringToFormattedDate(Get(params, "dateString"), options)
    IN IF ~CanRead(params) THEN Outcome(p.events, TRUE, Undef)
       ELSE Outcome(p.events \o <<Success(returnObj.value)>>, FALSE, Obj(options))

\* getDatePattern (the entry point)
bridgeGetDatePattern(args, now) ==
    LET p == CheckedParams(args, MissingDate, MalformedFormat)
        params == p.params
        paramsOptions == Or(Get(params, "options"), Obj(<<>>))
        selector == NormalSelector(Get(paramsOptions, "selector"))
        options == SelectorOptions(Get(paramsOptions, "formatLength"), selector)
        returnObj == getDatePattern(options, now)
    IN IF ~CanRead(params) THEN Outcome(p.events, TRUE, Undef)
       ELSE IF returnObj.threw THEN Outcome(p.events, TRUE, Obj(options))
       ELSE Outcome(p.events \o <<Success(returnObj.value)>>, FALSE, Obj(options))

\* options as getDateNames reads them: item and type
NameOptions(options) == [item |-> Get(options, "item"), type |-> Get(options, "type")]

\* getDateNames (the entry point)
bridgeGetDateNames(args) ==
    LET p == UncheckedParams(args, MalformedFormat)
        params == p.params
        options == NameOptions(Or(Get(params, "options"), Obj(<<>>)))
        names == getDateNames(options)
    IN IF ~CanRead(params) THEN Outcome(p.events, TRUE, Undef)
       ELSE Outcome(p.events \o <<Success([value |-> names.value])>>,
                    FALSE, Obj(options))

\* isDayLightSavingsTime (the entry point)
bridgeIsDayLightSavingsTime(args) ==
    LET p == UncheckedParams(args, MalformedFormat)
        params == p.params
        date == NewDate(Get(params, "date"))
        dst == isDayLightSavingsTime(date)
    IN IF ~CanRead(params) THEN Outcome(p.events, TRUE, Undef)
       ELSE Outcome(p.events \o <<Success([dst |-> dst.value])>>, FALSE, Undef)

ISO_SUNDAY == 7
CORDOVA_SUNDAY == 1
CORDOVA_MONDAY == 2

\* bridgeGetFirstDayOfWeek handing on the helper's ISO weekday.
bridgeGetFirstDayOfWeekIso(args) ==
    Outcome(<<Success([value |-> getFirstDayOfWeek])>>, FALSE, Undef)

\* getFirstDayOfWeek (the entry point)
bridgeGetFirstDayOfWeek(args) ==
    Outcome(<<Success([value |-> IF getFirstDayOfWeek = ISO_SUNDAY
                                 THEN CORDOVA_SUNDAY ELSE CORDOVA_MONDAY])>>,
            FALSE, Undef)

\* getCurrencyPattern answering a call that carries arguments.
getCurrencyPatternAttempt(args) ==
    IF NoArgs(args) THEN Outcome(<<Failure("not supported")>>, FALSE, Undef)
    ELSE Outcome(<<Success([pattern |-> <<>>])>>, FALSE, Undef)

\* numberToString, stringToNumber, getNumberPattern, getCurrencyPattern:
\* failureCB("not supported")
numberToString(args) == Outcome(<<Failure("not supported")>>, FALSE, Undef)
stringToNumber(args) == Outcome(<<Failure("not supported")>>, FALSE, Undef)
getNumberPattern(args) == Outcome(<<Failure("not supported")>>, FALSE, Undef)
getCurrencyPattern(args) == Outcome(<<Failure("not supported")>>, FALSE, Undef)

----------------------------------------------------------------------------
(* The inputs of the model.                                                *)

Blanks(n) == [i \in 1..n |-> " "]
\* s with up to MaxPad blanks before it or after it
Padded(s) ==
    {Blanks(k) \o s \o Blanks(j) : k \in 0..MaxPad, j \in 0..MaxPad} \ 
    {Blanks(k) \o s \o Blanks(j) : k \in 1..MaxPad, j \in 1..MaxPad}
CaseVariants(s) == {s, ToUpperCase(s)}

S_both == <<"b","o","t","h">>
Selectors ==
    {Undef, Str(S_both)} \cup
    {Str(p) : p \in UNION {Padded(c) :
                  c \in UNION {CaseVariants(b) : b \in {S_date, S_time, S_date_and_time}}}}

FormatLengths ==
    {Undef, Str(<<>>), Str(<<"s","h","o","r","t">>), Str(<<"M","e","d","i","u","m">>),
     Str(S_LONG), Str(<<"f","u","l","l">>), Str(<<"t","i","n","y">>)}

\* params.options of dateToString, stringToDate and getDatePattern
SelectorOptionsIn ==
    {Undef} \cup
    {Obj([selector |-> s, formatLength |-> f]) : s \in Selectors, f \in FormatLengths}

Items == {Undef, Str(ToUpperCase(S_days)), Str(S_months), Str(<<"w","e","e","k","s">>)}
         \cup {Str(p) : p \in Padded(S_days)}
Types == {Undef, Str(ToUpperCase(S_narrow)), Str(S_wide), Str(<<"l","o","n","g">>)}
         \cup {Str(p) : p \in Padded(S_narrow)}
\* params.options of getDateNames
NameOptionsIn ==
    {Undef} \cup {Obj([item |-> i, type |-> t]) : i \in Items, t \in Types}

\* The decoded params of each entry point.
Dates == {Undef, Num(1), Num(2)}
DateStrings == {Str(DateString1), Str(DateString2)}
DateToStringParams ==
    {Obj([options |-> o, date |-> Num(1)]) : o \in SelectorOptionsIn}
    \cup {Obj([options |-> Undef, date |-> d]) : d \in Dates}
StringToDateParams ==
    {Obj([options |-> o, dateString |-> Str(DateString1)]) : o \in SelectorOptionsIn}
    \cup {Obj([options |-> Undef, dateString |-> d]) : d \in DateStrings \cup {Undef}}
GetDatePatternParams == {Obj([options |-> o]) : o \in SelectorOptionsIn}
GetDateNamesParams == {Obj([options |-> o]) : o \in NameOptionsIn}
IsDSTParams == {Obj([date |-> d]) : d \in Dates}

Text(kind, json) == [t |-> "string", text |-> kind, json |-> json]
\* The argument lists an entry point is called with: absent, empty, one
\* undefined element, one text that does not decode or parse, one text that
\* encodes null or a number, and one text that encodes params.
ArgLists(params) ==
    {Undef, Obj(<<>>), Obj(<<Undef>>),
     Obj(<<Text("badUri", Undef)>>), Obj(<<Text("badJson", Undef)>>),
     Obj(<<Text("json", Null)>>), Obj(<<Text("json", Num(5))>>)}
    \cup {Obj(<<Text("json", p)>>) : p \in params}

AnyArgs ==
    {Undef, Obj(<<>>), Obj(<<Text("badJson", Undef)>>),
     Obj(<<Text("json", Obj([number |-> Num(3)]))>>)}

HelperFlags == {Undef, True, False}
HelperPatternOptions ==
    {[formatLength |-> f, date |-> d, time |-> t] :
        f \in FormatLengths, d \in HelperFlags, t \in HelperFlags}
HelperDateOptions ==
    {[formatLength |-> Undef, date |-> d, time |-> t] :
        d \in HelperFlags, t \in HelperFlags}
HelperNameOptions == {[item |-> i, type |-> t] : i \in Items, t \in Types}

----------------------------------------------------------------------------
(* The state machine: initialization, then calls in any order. The calls   *)
(* are synchronous: one is made when the last one has been taken note of.  *)

Bridge(op, args, now, out) ==
    [layer |-> "bridge", op |-> op, input |-> args, now |-> now, out |-> out]
Helper(op, input, now, out) ==
    [layer |-> "helper", op |-> op, input |-> input, now |-> now, out |-> out]
NoNow == [str |-> <<>>, zone |-> 0]
Idle == [layer |-> "none", op |-> "idle", input |-> Undef, now |-> NoNow, out |-> Undef]

\* index.js is loaded: globalizer.init() sets the locale from the platform.
Init ==
    /\ navigatorLanguage \in Langs
    /\ momentLang = init(navigatorLanguage)
    /\ call = Idle
    /\ firstDays = {}

\* The user changes the language of the device.
PlatformLanguageChange ==
    /\ call = Idle
    /\ \E l \in Langs \ {navigatorLanguage} : navigatorLanguage' = l
    /\ UNCHANGED <<momentLang, call, firstDays>>

GetPreferredLanguage ==
    /\ call = Idle
    /\ \E args \in AnyArgs :
          call' = Bridge("getPreferredLanguage", args, NoNow, getPreferredLanguage(args))
    /\ UNCHANGED <<navigatorLanguage, momentLang, firstDays>>

\* GetLocaleName running init() again before it answers.
GetLocaleNameReinit ==
    /\ call = Idle
    /\ \E args \in AnyArgs :
          call' = Bridge("getLocaleName", args, NoNow, getLocaleName(args))
    /\ momentLang' = init(navigatorLanguage)
    /\ UNCHANGED <<navigatorLanguage, firstDays>>

GetLocaleName ==
    /\ call = Idle
    /\ \E args \in AnyArgs :
          call' = Bridge("getLocaleName", args, NoNow, getLocaleName(args))
    /\ UNCHANGED <<navigatorLanguage, momentLang, firstDays>>

DateToString ==
    /\ call = Idle
    /\ \E args \in ArgLists(DateToStringParams), now \in Nows :
          call' = Bridge("dateToString", args, now, dateToString(args, now))
    /\ UNCHANGED <<navigatorLanguage, momentLang, firstDays>>

StringToDate ==
    /\ call = Idle
    /\ \E args \in ArgLists(StringToDateParams) :
          call' = Bridge("stringToDate", args, NoNow, stringToDate(args))
    /\ UNCHANGED <<navigatorLanguage, momentLang, firstDays>>

GetDatePattern ==
    /\ call = Idle
    /\ \E args \in ArgLists(GetDatePatternParams), now \in Nows :
          call' = Bridge("getDatePattern", args, now, bridgeGetDatePattern(args, now))
    /\ UNCHANGED <<navigatorLanguage, momentLang, firstDays>>

GetDateNames ==
    /\ call = Idle
    /\ \E args \in ArgLists(GetDateNamesParams) :
          call' = Bridge("getDateNames", args, NoNow, bridgeGetDateNames(args))
    /\ UNCHANGED <<navigatorLanguage, momentLang, firstDays>>

IsDayLightSavingsTime ==
    /\ call = Idle
    /\ \E args \in ArgLists(IsDSTParams) :
          call' = Bridge("isDayLightSavingsTime", args, NoNow,
                         bridgeIsDayLightSavingsTime(args))
    /\ UNCHANGED <<navigatorLanguage, momentLang, firstDays>>

GetFirstDayOfWeek ==
    /\ call = Idle
    /\ \E args \in AnyArgs :
          LET out == bridgeGetFirstDayOfWeek(args)
          IN /\ call' = Bridge("getFirstDayOfWeek", args, NoNow, out)
             /\ firstDays' = firstDays \cup {out.events[1].value.value}
    /\ UNCHANGED <<navigatorLanguage, momentLang>>

NumberToString ==
    /\ call = Idle
    /\ \E args \in AnyArgs :
          call' = Bridge("numberToString", args, NoNow, numberToString(args))
    /\ UNCHANGED <<navigatorLanguage, momentLang, firstDays>>

StringToNumber ==
    /\ call = Idle
    /\ \E args \in AnyArgs :
          call' = Bridge("stringToNumber", args, NoNow, stringToNumber(args))
    /\ UNCHANGED <<navigatorLanguage, momentLang, firstDays>>

GetNumberPattern ==
    /\ call = Idle
    /\ \E args \in AnyArgs :
          call' = Bridge("getNumberPattern", args, NoNow, getNumberPattern(args))
    /\ UNCHANGED <<navigatorLanguage, momentLang, firstDays>>

GetCurrencyPattern ==
    /\ call = Idle
    /\ \E args \in AnyArgs :
          call' = Bridge("getCurrencyPattern", args, NoNow, getCurrencyPattern(args))
    /\ UNCHANGED <<navigatorLanguage, momentLang, firstDays>>

\* The helper's exports, called directly.
HelperGetDatePattern ==
    /\ call = Idle
    /\ \E options \in HelperPatternOptions, now \in Nows :
          call' = Helper("getDatePattern", options, now, getDatePattern(options, now))
    /\ UNCHANGED <<navigatorLanguage, momentLang, firstDays>>

HelperStringToFormattedDate ==
    /\ call = Idle
    /\ \E dateString \in DateStrings, options \in HelperDateOptions :
          call' = Helper("stringToFormattedDate",
                         [dateString |-> dateString, options |-> options], NoNow,
                         stringToFormattedDate(dateString, options))
    /\ UNCHANGED <<navigatorLanguage, momentLang, firstDays>>

HelperGetDateNames ==
    /\ call = Idle
    /\ \E options \in HelperNameOptions :
          call' = Helper("getDateNames", options, NoNow, getDateNames(options))
    /\ UNCHANGED <<navigatorLanguage, momentLang, firstDays>>

\* The caller has taken note of the last call's outcome.
Complete ==
    /\ call # Idle
    /\ call' = Idle
    /\ UNCHANGED <<navigatorLanguage, momentLang, firstDays>>

Next ==
    \/ PlatformLanguageChange
    \/ GetPreferredLanguage
    \/ GetLocaleName
    \/ DateToString
    \/ StringToDate
    \/ GetDatePattern
    \/ GetDateNames
    \/ IsDayLightSavingsTime
    \/ GetFirstDayOfWeek
    \/ NumberToString
    \/ StringToNumber
    \/ GetNumberPattern
    \/ GetCurrencyPattern
    \/ HelperGetDatePattern
    \/ HelperStringToFormattedDate
    \/ HelperGetDateNames
    \/ Complete

Spec == Init /\ [][Next]_vars

----------------------------------------------------------------------------
(* The claims.                                                             *)

UnsupportedOps ==
    {"numberToString", "stringToNumber", "getNumberPattern", "getCurrencyPattern"}

\* C1: whatever the argument list, a call of numberToString, stringToNumber,
\* getNumberPattern or getCurrencyPattern reports exactly one thing, the
\* failure "not supported", reports no success and raises nothing.
C1_UnsupportedAlwaysFail ==
    call.op \in UnsupportedOps =>
        /\ Len(call.out.events) = 1
        /\ call.out.events[1].path = "failure"
        /\ call.out.events[1].value = "not supported"
        /\ ~call.out.threw
        /\ call.out.options = Undef

\* C1 witness: getCurrencyPattern called with a well-formed argument.
C1_Witness ==
    /\ call.op = "getCurrencyPattern"
    /\ ~NoArgs(call.input)
    /\ call.input.o[1].text = "json"
    /\ call.out.events = <<Failure("not supported")>>

JsonOps ==
    {"dateToString", "stringToDate", "getDatePattern", "getDateNames",
     "isDayLightSavingsTime"}
IsMissingArgument(e) == e.path = "failure" /\ e.value \in {MissingDate, MissingString}
IsMalformedArguments(e) ==
    e.path = "failure" /\ e.value \in {MalformedFormat, MalformedParse}
\* args[0] is absent or does not decode and parse
BadFirstArg(args) ==
    /\ ~NoArgs(args)
    /\ \/ args.o[1].t = "undefined"
       \/ args.o[1].text \in {"badUri", "badJson"}

\* C2: each of the five entry points that take a JSON argument reports a
\* missing-argument failure when args is absent or empty, and a
\* malformed-arguments failure when args[0] is absent or does not parse.
C2_ArgumentFailures ==
    (call.layer = "bridge" /\ call.op \in JsonOps) =>
        /\ NoArgs(call.input) =>
              /\ Len(call.out.events) = 1
              /\ IsMissingArgument(call.out.events[1])
        /\ BadFirstArg(call.input) =>
              /\ Len(call.out.events) = 1
              /\ IsMalformedArguments(call.out.events[1])

\* The calls of the helper's getDatePattern, made directly or by the entry
\* point getDatePattern: the options handed over and what came back.
PatternCall ==
    \/ call.layer = "helper" /\ call.op = "getDatePattern"
    \/ call.layer = "bridge" /\ call.op = "getDatePattern"
          /\ call.out.options.t = "object"
PatternOptions == IF call.layer = "helper" THEN call.input ELSE call.out.options.o
PatternReturned == PatternCall /\ ~call.out.threw
PatternResult ==
    IF call.layer = "helper" THEN call.out.value
    ELSE call.out.events[Len(call.out.events)].value
TimeExpansion == longDateFormat(momentLang, LT)

\* C3: with date = true, time = false and the SHORT length, the pattern
\* getDatePattern returns holds neither "LT" nor the locale's expansion of LT.
C3_ShortDateOnlyHasNoTime ==
    (/\ PatternReturned
     /\ PatternOptions.date = True
     /\ PatternOptions.time = False
     /\ FormatLengthKey(PatternOptions) = S_SHORT) =>
        /\ ~Contains(PatternResult.pattern, LT)
        /\ ~Contains(PatternResult.pattern, TimeExpansion)

\* C4: with date not asked for and time = true, whatever formatLength is (a
\* known length, absent, or any other string), every pattern getDatePattern
\* returns is exactly the locale's expansion of LT, and the call raises
\* nothing unless the platform's date text names no time zone.
C4_TimeOnlyIsTimeExpansion ==
    (/\ PatternCall
     /\ ~Truthy(PatternOptions.date)
     /\ PatternOptions.time = True) =>
        /\ call.out.threw => ExecTimezoneExpr(call.now.str) = Null
        /\ PatternReturned => PatternResult.pattern = TimeExpansion

\* C4 witness: date = false, time = true and a formatLength that names no
\* length; the call returned.
C4_Witness ==
    /\ PatternReturned
    /\ PatternOptions.date = False
    /\ PatternOptions.time = True
    /\ MOMENT_DATE_FORMAT(FormatLengthKey(PatternOptions)) = Undef
    /\ PatternResult.pattern = TimeExpansion

KnownLengths == {S_SHORT, S_MEDIUM, S_LONG, S_FULL}
\* a text holds the year, month and day tokens of a date
HasDatePortion(p) ==
    /\ Contains(p, <<"Y","Y","Y","Y">>)
    /\ Contains(p, <<"M">>)
    /\ Contains(p, <<"D">>)

\* C5: with date = true, time = true and one of the four lengths, the pattern
\* getDatePattern returns holds a date portion and the locale's expansion of
\* LT, has no blank at either end, no two blanks in a row and no "LT" left;
\* for SHORT it is the two expansions joined by one blank.
C5_DateAndTimePattern ==
    (/\ PatternReturned
     /\ PatternOptions.date = True
     /\ PatternOptions.time = True
     /\ FormatLengthKey(PatternOptions) \in KnownLengths) =>
        LET p == PatternResult.pattern
        IN /\ HasDatePortion(p)
           /\ Contains(p, TimeExpansion)
           /\ ~IsSpace(p[1]) /\ ~IsSpace(p[Len(p)])
           /\ ~Contains(p, <<" ", " ">>)
           /\ ~Contains(p, LT)
           /\ FormatLengthKey(PatternOptions) = S_SHORT =>
                 p = longDateFormat(momentLang, <<"L">>) \o <<" ">> \o TimeExpansion

\* C5 witness: the FULL length with both parts, in the Hungarian locale.
C5_Witness ==
    /\ PatternReturned
    /\ PatternOptions.date = True
    /\ PatternOptions.time = True
    /\ FormatLengthKey(PatternOptions) = S_FULL
    /\ momentLang = "hu"
    /\ PatternResult.pattern =
          <<"Y","Y","Y","Y","."," ","M","M","M","M"," ","D",".",","," ",
            "d","d","d","d"," ","H",":","m","m">>

\* The calls of stringToFormattedDate, made directly or by the entry point
\* stringToDate: the string and options handed over and what came back.
ParseCall ==
    \/ call.layer = "helper" /\ call.op = "stringToFormattedDate"
    \/ call.layer = "bridge" /\ call.op = "stringToDate"
          /\ call.out.options.t = "object"
ParseOptions ==
    IF call.layer = "helper" THEN call.input.options ELSE call.out.options.o
ParseDateString ==
    IF call.layer = "helper" THEN call.input.dateString
    ELSE Get(call.input.o[1].json, "dateString")
ParseResult ==
    IF call.layer = "helper" THEN call.out.value
    ELSE call.out.events[Len(call.out.events)].value
\* The selector the caller of stringToDate gave, Undef when it gave none.
GivenSelector ==
    Get(Or(Get(call.input.o[1].json, "options"), Obj(<<>>)), "selector")
AllFieldNames == DateFieldNames \cup TimeFieldNames
\* A part is asked for when its flag is truthy, and by default when neither
\* flag is truthy.
DateRequested(o) == Truthy(o.date) \/ ~Truthy(o.time)
TimeRequested(o) == Truthy(o.time) \/ ~Truthy(o.date)

\* C6: the result of stringToFormattedDate holds year, month and day exactly
\* when the date part is asked for and hour, minute, second and millisecond
\* exactly when the time part is asked for, each with the value the parser
\* read; stringToDate with selector "date" gives year, month and day only.
C6_FieldsFollowRequest ==
    ParseCall =>
        LET r == ParseResult
        IN /\ ~call.out.threw
           /\ DateFieldNames \subseteq DOMAIN r <=> DateRequested(ParseOptions)
           /\ DateFieldNames \cap DOMAIN r # {} => DateRequested(ParseOptions)
           /\ TimeFieldNames \subseteq DOMAIN r <=> TimeRequested(ParseOptions)
           /\ TimeFieldNames \cap DOMAIN r # {} => TimeRequested(ParseOptions)
           /\ DOMAIN r \subseteq AllFieldNames
           /\ \A f \in DOMAIN r : r[f] = MomentParse(ParseDateString)[f]
           /\ (call.layer = "bridge" /\ GivenSelector = Str(S_date)) =>
                 DOMAIN r = DateFieldNames

\* C6 witness: stringToDate of "2011-04-11T10:30:00" with selector "date"
\* reported year 2011, month 3, day 11 and nothing else.
C6_Witness ==
    /\ call.layer = "bridge" /\ call.op = "stringToDate"
    /\ call.out.options.t = "object"
    /\ GivenSelector = Str(S_date)
    /\ ParseDateString = Str(DateString1)
    /\ call.out.events = <<Success([year |-> 2011, month |-> 3, day |-> 11])>>

\* The calls of the helper's getDateNames, made directly or by the entry point
\* getDateNames.
NamesCall ==
    \/ call.layer = "helper" /\ call.op = "getDateNames"
    \/ call.layer = "bridge" /\ call.op = "getDateNames"
          /\ call.out.options.t = "object"
NamesOptions == IF call.layer = "helper" THEN call.input ELSE call.out.options.o
NamesResult ==
    IF call.layer = "helper" THEN call.out.value
    ELSE call.out.events[Len(call.out.events)].value.value
IsDays(o) == o.item.t = "string" /\ ToLowerCase(o.item.s) = S_days
IsNarrow(o) == o.type.t = "string" /\ ToLowerCase(o.type.s) = S_narrow

\* C7: getDateNames returns the weekday table, of 7 entries, when item is
\* "days" in any letter case and the month table, of 12 entries, otherwise,
\* an absent item included; it returns the short table when type is "narrow"
\* in any letter case and the full one otherwise, an absent type included.
C7_NamesByItemAndType ==
    NamesCall =>
        LET o == NamesOptions
            r == NamesResult
        IN /\ ~call.out.threw
           /\ Len(r) = IF IsDays(o) THEN 7 ELSE 12
           /\ r = NameTable(momentLang,
                     CASE IsDays(o) /\ IsNarrow(o) -> "_weekdaysShort"
                       [] IsDays(o) /\ ~IsNarrow(o) -> "_weekdays"
                       [] ~IsDays(o) /\ IsNarrow(o) -> "_monthsShort"
                       [] OTHER -> "_months")

\* C7 witness: item "DAYS" and type "NARROW" gave the 7 short weekday names.
C7_Witness ==
    /\ NamesCall
    /\ NamesOptions.item = Str(ToUpperCase(S_days))
    /\ NamesOptions.type = Str(ToUpperCase(S_narrow))
    /\ Len(NamesResult) = 7
    /\ NamesResult = NameTable(momentLang, "_weekdaysShort")

C9_LocaleSetOnce ==
    /\ momentLang = init(navigatorLanguage)
    /\ [][momentLang' = momentLang /\ Cardinality(firstDays') <= 1]_vars

\* C9 witness: getFirstDayOfWeek answered after the platform's language had
\* changed away from the locale.
C9_Witness ==
    /\ call.op = "getFirstDayOfWeek"
    /\ navigatorLanguage # momentLang
    /\ Cardinality(firstDays) = 1

C11_PatternDefaultOnlyWhenAbsent ==
    PatternReturned =>
        LET o == PatternOptions
            p == PatternResult.pattern
        IN IF o.date = Undef /\ o.time = Undef
           THEN HasDatePortion(p) /\ Contains(p, TimeExpansion)
           ELSE /\ HasDatePortion(p) <=> Truthy(o.date)
                /\ (~Truthy(o.date) /\ Truthy(o.time)) => p = TimeExpansion
                /\ (Truthy(o.date) /\ ~Truthy(o.time)
                        /\ FormatLengthKey(o) # S_SHORT) =>
                      ~Contains(p, TimeExpansion)
                /\ (~Truthy(o.date) /\ ~Truthy(o.time)) => p = <<>>

\* C11 witness: date = false and time = false gave the empty pattern.
C11_Witness ==
    /\ PatternReturned
    /\ PatternOptions.date = False
    /\ PatternOptions.time = False
    /\ PatternResult.pattern = <<>>

\* The lookup of the length's skeleton does not fail: the date part is not
\* asked for, or the format length is one of the four.
SkeletonFound(o) == Truthy(PatternDisplayDate(o)) => FormatLengthKey(o) \in KnownLengths

\* C12: a call of getDatePattern whose skeleton lookup does not fail returns
\* whether or not the platform's date text ends in a parenthesized zone name;
\* its timezone is the text inside the parentheses when there is one and the
\* signed offset, +HHMM or -HHMM, when there is none.
C12_TimezoneNameOrOffset ==
    (PatternCall /\ SkeletonFound(PatternOptions)) =>
        LET matches == ExecTimezoneExpr(call.now.str)
        IN /\ ~call.out.threw
           /\ PatternResult.timezone =
                 IF matches = Null THEN MomentFormatZZ(call.now.zone)
                 ELSE matches.o[2]

\* The date part is asked for: options.date is truthy, or neither flag is given.
DateAsked(o) == Truthy(o.date) \/ (o.date = Undef /\ o.time = Undef)
\* options.formatLength, upper-cased, names none of the four lengths.
UnknownLength(o) == Truthy(o.formatLength) /\ ToUpperCase(o.formatLength.s) \notin KnownLengths
\* The platform's date text ends in a parenthesized zone name.
ZoneNamed == ExecTimezoneExpr(call.now.str) # Null

\* C13 as claimed: every call of getDatePattern whose formatLength names none
\* of the four lengths raises instead of returning a pattern, whatever parts
\* are asked for; a call with an absent formatLength does not raise this way.
C13_UnknownLengthAlwaysFails ==
    PatternCall =>
        LET o == PatternOptions
        IN /\ UnknownLength(o) => call.out.threw
           /\ (o.formatLength = Undef /\ ZoneNamed) => ~call.out.threw

\* C13 amended: a call of getDatePattern whose formatLength names none of the
\* four lengths raises exactly when the date part is asked for: it raises
\* then, substituting no default length, and with the date part not asked for
\* the length is never looked up and the call returns. A call with an absent
\* formatLength does not raise this way and its date part is the SHORT one.
C13_UnknownLengthFailsWithDate ==
    PatternCall =>
        LET o == PatternOptions
        IN /\ (UnknownLength(o) /\ DateAsked(o)) => call.out.threw
           /\ (UnknownLength(o) /\ ~DateAsked(o) /\ ZoneNamed) => ~call.out.threw
           /\ (call.out.threw /\ ZoneNamed) => (UnknownLength(o) /\ DateAsked(o))
           /\ (o.formatLength = Undef /\ ZoneNamed) => ~call.out.threw
           /\ (o.formatLength = Undef /\ PatternReturned /\ DateAsked(o)) =>
                 HasAt(PatternResult.pattern, longDateFormat(momentLang, <<"L">>), 1)

\* C13 witness: formatLength "tiny" with the date part asked for raised, on a
\* platform whose date text names its zone.
C13_Witness ==
    /\ PatternCall
    /\ PatternOptions.formatLength = Str(<<"t","i","n","y">>)
    /\ PatternOptions.date = True
    /\ ZoneNamed
    /\ call.out.threw

\* C14: every call of an entry point, whatever its argument list, reports
\* exactly one thing, a success or a failure, and raises nothing; a call
\* that reported a failure for missing or malformed arguments raises nothing
\* afterwards.
C14_OneOutcomeNoException ==
    call.layer = "bridge" =>
        /\ Len(call.out.events) = 1
        /\ call.out.events[1].path \in {"success", "failure"}
        /\ ~call.out.threw

SelectorOps == {"dateToString", "stringToDate", "getDatePattern"}
\* A call of one of the three entry points that take a selector, which got as
\* far as deriving the options it hands to the helper.
SelectorCall ==
    /\ call.layer = "bridge"
    /\ call.op \in SelectorOps
    /\ call.out.options.t = "object"
\* The (date, time) flags of an options object.
Flags(options) == <<options.date, options.time>>
\* The flags the entry point op derives from a selector.
SelectorFlags(op, selector) ==
    LET args == Obj(<<Text("json",
                    Obj([options |-> Obj([selector |-> selector,
                                          formatLength |-> Undef])]))>>)
        out == CASE op = "dateToString" -> dateToString(args, NowWithName)
                 [] op = "stringToDate" -> stringToDate(args)
                 [] OTHER -> bridgeGetDatePattern(args, NowWithName)
    IN Flags(out.options.o)

\* C15: the flags a call of dateToString, stringToDate or getDatePattern
\* derives from the selector it was given are the flags each of the three
\* derives from that selector, letter case and surrounding blanks included;
\* from an absent selector the call derives the two absent flags, on which
\* the helpers default to both parts.
C15_SameFlagsFromSelector ==
    SelectorCall =>
        /\ \A op \in SelectorOps :
              Flags(call.out.options.o) = SelectorFlags(op, GivenSelector)
        /\ GivenSelector = Undef => Flags(call.out.options.o) = <<Undef, Undef>>

====
